---- MODULE Spec2Model ----
(***************************************************************************)
(* The client-side data-synchronisation layer of the Knowledge Hub:        *)
(* the Papers view (src/pages/papers.tsx) and the latest Words view        *)
(* (src/pages/index.tsx, lines 283-681), each against its remote table.    *)
(*                                                                         *)
(* Strings the code transforms (titles, tags, search queries, words) are   *)
(* sequences of one-character strings; opaque strings (status values,      *)
(* error messages) are TLA+ strings.  A nullable value is a sequence of    *)
(* length 0 (null) or 1 (the value).  The link and note fields of a paper  *)
(* are carried exactly like the title and are left out.                    *)
(***************************************************************************)
EXTENDS Integers, Sequences, FiniteSets, Bags, TLC

VARIABLES
    page,          \* which view the router mounted: "papers" or "words"
    mounted,       \* the mount effect has run
    papers,        \* Papers: useState<Paper[]>([])
    memoToday,     \* Papers: the day new Date() gave when readingTimeline was computed
    allTags,       \* Papers: the tag list computed when the cache was last replaced
    loading,       \* Papers: useState(false)
    error,         \* Papers: useState<string | null>(null)
    newPaper,      \* Papers: the add form
    adding,        \* Papers: useState(false), never set
    searchQuery,   \* Papers: useState("")
    filter,        \* Papers: "all" | "read" | "unread"
    selectedTag,   \* Papers: useState<string | null>(null)
    editingPaper,  \* Papers: useState<Paper | null>(null)
    editForm,      \* Papers: the edit form
    remote,        \* the remote papers table, in insertion order
    nextId,        \* the next server-generated id
    now,           \* the clock (client and server)
    tasks,         \* Papers: the running async handlers, a bag
    words,         \* Words: useState<Word[]>([])
    wLoading,      \* Words: useState(false)
    wError,        \* Words: useState<string | null>(null)
    wForm,         \* Words: the react-hook-form values
    wSearchQuery,  \* Words: useState("")
    wFilter,       \* Words: "all" | "mastered" | "unmastered"
    wRemote,       \* the remote words table
    wTasks,        \* Words: the running async handlers
    lastOp,        \* history: what the last step left nowhere else: the handler that
                   \* returned early or only changed the filter state, and the value
                   \* passed to setError that the same step overwrote
    toggled        \* history: per paper id, the toggle updates the store applied

pvars == <<papers, memoToday, allTags, loading, error, newPaper, adding, searchQuery, filter,
           selectedTag, editingPaper, editForm, remote, nextId, tasks,
           toggled>>
wvars == <<words, wLoading, wError, wForm, wSearchQuery, wFilter, wRemote, wTasks>>
vars == <<page, mounted, now, lastOp, pvars, wvars>>

\* ---------------------------------------------------------------- bounds
MaxRows == 2        \* rows a table may hold
MaxClock == 3       \* last clock value a timestamp may take
MaxTasks == 2       \* handlers running concurrently
TicksPerDay == 4    \* clock values of one calendar day
MaxNights == 1      \* midnights that pass while the view is open

\* ---------------------------------------------------------------- values
NULL == "null"
Op(name, err) == [name |-> name, err |-> err]
Quiet == Op("", NULL)
None == <<>>
Some(x) == <<x>>

\* the message of the store's error for a request it refuses: reads fail on the
\* connection, writes on the row-level security policies
ErrorMessage(req) == IF req = "list" THEN "network error" ELSE "permission denied"

Min(a, b) == IF a < b THEN a ELSE b

\* ---------------------------------------------------------------- strings
Whitespace == {" "}

ToLowerChar(c) ==
    CASE c = "A" -> "a"
      [] c = "B" -> "b"
      [] OTHER -> c

\* String.prototype.toLowerCase
ToLowerCase(s) == [i \in 1..Len(s) |-> ToLowerChar(s[i])]

\* String.prototype.includes
Includes(s, sub) ==
    \E i \in 0..(Len(s) - Len(sub)) : SubSeq(s, i + 1, i + Len(sub)) = sub

RECURSIVE TrimStart(_)
TrimStart(s) ==
    IF s # <<>> /\ Head(s) \in Whitespace THEN TrimStart(Tail(s)) ELSE s

RECURSIVE TrimEnd(_)
TrimEnd(s) ==
    IF s # <<>> /\ s[Len(s)] \in Whitespace
    THEN TrimEnd(SubSeq(s, 1, Len(s) - 1)) ELSE s

\* String.prototype.trim
Trim(s) == TrimEnd(TrimStart(s))

\* String.prototype.split(","): the pieces between the commas, at least one
RECURSIVE SplitComma(_, _, _)
SplitComma(s, cur, acc) ==
    IF s = <<>> THEN Append(acc, cur)
    ELSE IF Head(s) = "," THEN SplitComma(Tail(s), <<>>, Append(acc, cur))
    ELSE SplitComma(Tail(s), Append(cur, Head(s)), acc)

\* e.target.value.split(",").map(t => t.trim())
ParseTags(input) ==
    LET parts == SplitComma(input, <<>>, <<>>)
    IN  [i \in 1..Len(parts) |-> Trim(parts[i])]

\* tags.join(", "): what a tags input displays
RECURSIVE JoinTags(_)
JoinTags(ts) ==
    IF ts = <<>> THEN <<>>
    ELSE IF Len(ts) = 1 THEN Head(ts)
    ELSE Head(ts) \o <<",", " ">> \o JoinTags(Tail(ts))

\* ---------------------------------------------------------------- sequences
Range(s) == {s[i] : i \in 1..Len(s)}


\* Array.prototype.filter keeps the order: SelectSeq of the Sequences module

\* insert x into r (sorted by field key, descending), after the rows that do not
\* compare after it
InsertDesc(r, x, key) ==
    LET k == Cardinality({i \in 1..Len(r) : r[i][key] >= x[key]})
    IN  SubSeq(r, 1, k) \o <<x>> \o SubSeq(r, k + 1, Len(r))

\* a stable sort by field key descending, as Array.prototype.sort with the
\* comparator b[key] - a[key], and ORDER BY key DESC, are
RECURSIVE SortDescBy(_, _, _)
SortDescBy(s, acc, key) ==
    IF s = <<>> THEN acc
    ELSE SortDescBy(Tail(s), InsertDesc(acc, Head(s), key), key)

\* ---------------------------------------------------------------- Papers: data
RecentN == 5
AddFailedMessage == "Failed to add paper"

EmptyForm == [title |-> <<>>, tags |-> <<>>]

\* what the user types into a title field, a tags field and the search box
TitleInputs == {<<>>, <<" ">>, <<"A">>}
TagInputs == {<<>>, <<"x">>, <<"x", ",">>}
QueryInputs == {<<>>, <<"a">>, <<"B">>}

\* the papers table when the view is opened: one unread paper
PaperA == [id |-> 1, title |-> <<"A">>, status |-> "unread", tags |-> Some(<<<<"x">>>>),
           created_at |-> 1, updated_at |-> 1]
InitialTables == {<<PaperA>>}
InitialClock == PaperA.updated_at + 1

\* paper.tags || []
TagsOf(p) == IF p.tags = None THEN <<>> ELSE p.tags[1]

\* a JavaScript string used as a condition: null and "" are falsy
Truthy(opt) == opt # None /\ opt[1] # <<>>

\* ---------------------------------------------------------------- Papers: derived views
RECURSIVE AddTags(_, _)
AddTags(acc, ts) ==
    IF ts = <<>> THEN acc
    ELSE AddTags(IF Head(ts) \in Range(acc) THEN acc ELSE Append(acc, Head(ts)), Tail(ts))

RECURSIVE CollectTags(_, _)
CollectTags(ps, acc) ==
    IF ps = <<>> THEN acc ELSE CollectTags(Tail(ps), AddTags(acc, TagsOf(Head(ps))))

\* allTags: Array.from of the Set the tags were added to
AllTags(ps) == CollectTags(ps, <<>>)

\* papers.sort(...) of recentActivity: sorts the array it is called on
RecentSort(ps) == SortDescBy(ps, <<>>, "updated_at")

\* the five papers created last
RecentActivityByCreation(ps) == SubSeq(SortDescBy(ps, <<>>, "created_at"), 1, Min(RecentN, Len(ps)))

\* recentActivity
RecentActivity(ps) == SubSeq(RecentSort(ps), 1, Min(RecentN, Len(ps)))

\* the callback of filteredPapers
PaperVisible(p, f, tag, q) ==
    IF f # "all" /\ p.status # f THEN FALSE
    ELSE IF Truthy(tag) /\ (p.tags = None \/ tag[1] \notin Range(p.tags[1])) THEN FALSE
    ELSE IF q # <<>> THEN Includes(ToLowerCase(p.title), ToLowerCase(q))
    ELSE TRUE

\* filteredPapers
FilteredPapers(ps, f, tag, q) == SelectSeq(ps, LAMBDA p : PaperVisible(p, f, tag, q))

\* the list is rendered only when neither loading nor error is set
ListVisible == ~loading /\ error = NULL

\* the papers whose list row is rendered
ListRows == IF ListVisible
            THEN Range(FilteredPapers(papers, filter, selectedTag, searchQuery))
            ELSE {}

\* the row of the list that shows the edit form
EditRowShown == editingPaper # None /\ \E p \in ListRows : p.id = editingPaper[1].id

\* ---------------------------------------------------------------- Papers: the dashboard
\* Math.round of the quotient 100 * n / total, total > 0: the nearest integer,
\* a half rounded up (the quotient is exact in floating point for the totals
\* of the model)
RoundPercent(n, total) == (200 * n + total) \div (2 * total)

\* papers.filter(p => p.status === st).length
CountStatus(ps, st) == Len(SelectSeq(ps, LAMBDA p : p.status = st))

\* percentages rounded before they are scaled: Math.round(read / total) * 100
StatsRoundFirst(ps) ==
    LET total == Len(ps)
        read == CountStatus(ps, "read")
        unread == CountStatus(ps, "unread")
    IN  [total |-> total, read |-> read, unread |-> unread,
         readPercentage |-> IF total > 0 THEN ((2 * read + total) \div (2 * total)) * 100 ELSE 0,
         unreadPercentage |-> IF total > 0 THEN ((2 * unread + total) \div (2 * total)) * 100 ELSE 0,
         uniqueTagsCount |-> Cardinality(Range(AllTags(ps)))]

\* stats
Stats(ps) ==
    LET total == Len(ps)
        read == CountStatus(ps, "read")
        unread == CountStatus(ps, "unread")
    IN  [total |-> total, read |-> read, unread |-> unread,
         readPercentage |-> IF total > 0 THEN RoundPercent(read, total) ELSE 0,
         unreadPercentage |-> IF total > 0 THEN RoundPercent(unread, total) ELSE 0,
         uniqueTagsCount |-> Cardinality(Range(AllTags(ps)))]

\* format(date, 'yyyy-MM-dd'): the calendar day of a clock value
DayOf(ts) == ts \div TicksPerDay

\* Array.from({ length: 30 }, ...)
TimelineDays == 30

\* paper.status === 'read' ? paper.updated_at : paper.created_at
PaperDate(p) == IF p.status = "read" THEN p.updated_at ELSE p.created_at

\* a timeline that takes the creation date of every paper
ReadingTimelineByCreation(ps, today) ==
    [i \in 1..TimelineDays |->
        [date |-> today - (TimelineDays - i),
         count |-> Len(SelectSeq(ps, LAMBDA p : DayOf(p.created_at) = today - (TimelineDays - i)))]]

\* readingTimeline, computed on the day today: subDays(new Date(), i) for
\* i = 0..29, reversed, each day with the number of papers dated that day
ReadingTimeline(ps, today) ==
    [i \in 1..TimelineDays |->
        [date |-> today - (TimelineDays - i),
         count |-> Len(SelectSeq(ps, LAMBDA p : DayOf(PaperDate(p)) = today - (TimelineDays - i)))]]

\* the timeline the chart shows: the memoized value
Timeline == ReadingTimeline(papers, memoToday)

\* the tag "constructor"
Constructor == <<"c", "o", "n", "s", "t", "r", "u", "c", "t", "o", "r">>

\* keys the object literal {} inherits from Object.prototype with a function as
\* value (toString, valueOf, hasOwnProperty are others)
ObjectPrototypeKeys == {Constructor}

\* a value of tagCount: the number n, or (text) the string made of the source
\* text of an inherited function followed by n digits 1
Number(n) == [text |-> FALSE, n |-> n]

\* tagCount[tag]: the own property, the inherited one, or undefined
HasOwn(tc, tag) == \E i \in 1..Len(tc) : tc[i].name = tag

\* (tagCount[tag] || 0) + 1: undefined gives 1, a number n gives n + 1, a
\* function or a string is truthy and + appends "1" to its text
Incremented(tc, tag) ==
    IF HasOwn(tc, tag)
    THEN LET i == CHOOSE j \in 1..Len(tc) : tc[j].name = tag
         IN  [tc[i].count EXCEPT !.n = @ + 1]
    ELSE IF tag \in ObjectPrototypeKeys
    THEN [text |-> TRUE, n |-> 1]
    ELSE Number(1)

\* tagCount[tag] = ...: assigns the own property, a new key coming last
Assign(tc, tag, v) ==
    IF HasOwn(tc, tag)
    THEN [i \in 1..Len(tc) |-> IF tc[i].name = tag THEN [tc[i] EXCEPT !.count = v] ELSE tc[i]]
    ELSE Append(tc, [name |-> tag, count |-> v])

\* paper.tags?.forEach(tag => ...)
RECURSIVE CountTags(_, _)
CountTags(ts, tc) ==
    IF ts = <<>> THEN tc
    ELSE CountTags(Tail(ts), Assign(tc, Head(ts), Incremented(tc, Head(ts))))

\* tagDistribution: the entries of tagCount after papers.forEach
RECURSIVE TagCounts(_, _)
TagCounts(ps, tc) ==
    IF ps = <<>> THEN tc
    ELSE TagCounts(Tail(ps), CountTags(TagsOf(Head(ps)), tc))

TagDistribution(ps) == TagCounts(ps, <<>>)

\* ---------------------------------------------------------------- Papers: the store
\* .order("created_at", { ascending: false })
ListQuery(table) == SortDescBy(table, <<>>, "created_at")

NoPayload == [title |-> <<>>, tags |-> None, status |-> "unread", created_at |-> 0]

\* a running handler: op is the handler, req the request it awaits, st whether
\* the store has answered it; snap is the papers array addPaper closed over;
\* touched records, for the other handlers, that setPapers was called since they
\* started; wfail that the handler's write was refused
NewTask(op, req, id, payload, snap) ==
    [op |-> op, req |-> req, st |-> "sent", id |-> id, payload |-> payload,
     snap |-> snap, touched |-> FALSE, wfail |-> FALSE, err |-> NULL, data |-> <<>>]

Running == BagToSet(tasks)
Spawn(t) == tasks (+) SetToBag({t})
Finish(t) == tasks (-) SetToBag({t})
Replace(t, u) == (tasks (-) SetToBag({t})) (+) SetToBag({u})

\* the handlers left running after setPapers was called
Touch(bag) ==
    BagOfAll(LAMBDA u : IF u.op \in {"toggle", "delete", "edit"}
                        THEN [u EXCEPT !.touched = TRUE] ELSE u, bag)

RECURSIVE CountIn(_, _)
CountIn(bag, S) ==
    IF S = {} THEN 0
    ELSE LET t == CHOOSE x \in S : TRUE IN bag[t] + CountIn(bag, S \ {t})

\* requests of kind req the store has not executed yet
Pending(req) == CountIn(tasks, {t \in Running : t.st = "sent" /\ t.req = req})

CanStart == BagCardinality(tasks) < MaxTasks
\* every pending update will stamp updated_at
CanStamp == now + Pending("update") <= MaxClock

\* setPapers(v), and the render that follows: the useMemo values that depend on
\* papers are recomputed for the new array: readingTimeline reads the date, and
\* recentActivity sorts the array
SetPapers(v) == papers' = RecentSort(v) /\ memoToday' = DayOf(now) /\ allTags' = AllTags(v)

\* the synchronous start of fetchPapers
FetchPapersStart == loading' = TRUE /\ error' = NULL

\* ---------------------------------------------------------------- Papers: handlers
formVars == <<newPaper, editingPaper, editForm>>
viewVars == <<searchQuery, filter, selectedTag>>
storeVars == <<remote, nextId, toggled>>
fixedVars == <<page, mounted, adding, wvars>>

\* useEffect(() => { fetchPapers(); }, [])
MountPapers ==
    /\ page = "papers" /\ ~mounted
    /\ mounted' = TRUE
    /\ FetchPapersStart
    /\ tasks' = Spawn(NewTask("fetch", "list", 0, NoPayload, <<>>))
    /\ lastOp' = Quiet
    /\ UNCHANGED <<page, adding, wvars, now, papers, memoToday, allTags,
                   formVars, viewVars, storeVars>>

\* onChange of the add form's title input
SetNewTitle(t) ==
    /\ page = "papers" /\ mounted
    /\ newPaper' = [newPaper EXCEPT !.title = t]
    /\ lastOp' = Quiet
    /\ UNCHANGED <<fixedVars, now, papers, memoToday, allTags, loading, error,
                   editingPaper, editForm, viewVars, storeVars, tasks>>

\* onChange of the add form's tags input
SetNewTags(input) ==
    /\ page = "papers" /\ mounted
    /\ input # JoinTags(newPaper.tags)
    /\ newPaper' = [newPaper EXCEPT !.tags = ParseTags(input)]
    /\ lastOp' = Quiet
    /\ UNCHANGED <<fixedVars, now, papers, memoToday, allTags, loading, error,
                   editingPaper, editForm, viewVars, storeVars, tasks>>

\* the request addPaper sends
InsertPayload ==
    [title |-> Trim(newPaper.title),
     tags |-> IF Len(newPaper.tags) > 0 THEN Some(newPaper.tags) ELSE None,
     status |-> "unread",
     created_at |-> now]

\* an addPaper that tests the title as typed, without trim()
AddPaperUntrimmed ==
    /\ page = "papers" /\ mounted
    /\ ~adding
    /\ IF newPaper.title = <<>>
       THEN /\ lastOp' = Op("addPaper returned", NULL)
            /\ UNCHANGED <<loading, error, tasks, now>>
       ELSE /\ lastOp' = Quiet
            /\ CanStart
            /\ now <= MaxClock
            /\ Len(remote) + Pending("insert") < MaxRows
            /\ loading' = TRUE
            /\ error' = NULL
            /\ tasks' = Spawn(NewTask("add", "insert", 0, InsertPayload, papers))
            /\ now' = now + 1
    /\ UNCHANGED <<fixedVars, papers, memoToday, allTags, formVars, viewVars, storeVars>>

\* addPaper, up to its await
AddPaper ==
    /\ page = "papers" /\ mounted
    /\ ~adding
    /\ IF Trim(newPaper.title) = <<>>
       THEN /\ lastOp' = Op("addPaper returned", NULL)
            /\ UNCHANGED <<loading, error, tasks, now>>
       ELSE /\ lastOp' = Quiet
            /\ CanStart
            /\ now <= MaxClock
            /\ Len(remote) + Pending("insert") < MaxRows
            /\ loading' = TRUE
            /\ error' = NULL
            /\ tasks' = Spawn(NewTask("add", "insert", 0, InsertPayload, papers))
            /\ now' = now + 1
    /\ UNCHANGED <<fixedVars, papers, memoToday, allTags, formVars, viewVars, storeVars>>

\* toggleStatus(paper.id, paper.status), up to its await; the button is in the
\* Recent Activity panel and in the list
ToggleStatus(p) ==
    /\ page = "papers" /\ mounted
    /\ p \in Range(RecentActivity(papers)) \/ (p \in ListRows /\ ~(editingPaper # None /\ editingPaper[1].id = p.id))
    /\ CanStart /\ CanStamp
    /\ loading' = TRUE
    /\ error' = NULL
    /\ tasks' = Spawn(NewTask("toggle", "update", p.id,
                  [NoPayload EXCEPT !.status = IF p.status = "read" THEN "unread" ELSE "read"],
                  <<>>))
    /\ lastOp' = Quiet
    /\ UNCHANGED <<fixedVars, now, papers, memoToday, allTags, formVars, viewVars, storeVars>>

\* startEditing(paper)
StartEditing(p) ==
    /\ page = "papers" /\ mounted
    /\ p \in ListRows
    /\ ~(editingPaper # None /\ editingPaper[1].id = p.id)
    /\ editingPaper' = Some(p)
    /\ editForm' = [title |-> p.title, tags |-> TagsOf(p)]
    /\ lastOp' = Quiet
    /\ UNCHANGED <<fixedVars, now, papers, memoToday, allTags, loading, error,
                   newPaper, viewVars, storeVars, tasks>>

\* cancelEditing
CancelEditing ==
    /\ page = "papers" /\ mounted
    /\ EditRowShown
    /\ editingPaper' = None
    /\ editForm' = EmptyForm
    /\ lastOp' = Quiet
    /\ UNCHANGED <<fixedVars, now, papers, memoToday, allTags, loading, error,
                   newPaper, viewVars, storeVars, tasks>>

\* onChange of the edit form's title input
SetEditTitle(t) ==
    /\ page = "papers" /\ mounted
    /\ EditRowShown
    /\ editForm' = [editForm EXCEPT !.title = t]
    /\ lastOp' = Quiet
    /\ UNCHANGED <<fixedVars, now, papers, memoToday, allTags, loading, error,
                   newPaper, editingPaper, viewVars, storeVars, tasks>>

\* onChange of the edit form's tags input
SetEditTags(input) ==
    /\ page = "papers" /\ mounted
    /\ EditRowShown
    /\ input # JoinTags(editForm.tags)
    /\ editForm' = [editForm EXCEPT !.tags = ParseTags(input)]
    /\ lastOp' = Quiet
    /\ UNCHANGED <<fixedVars, now, papers, memoToday, allTags, loading, error,
                   newPaper, editingPaper, viewVars, storeVars, tasks>>

\* the request updatePaper sends: ...editForm with the tags filtered
UpdatePayload ==
    [title |-> editForm.title,
     tags |-> Some(SelectSeq(editForm.tags, LAMBDA t : Trim(t) # <<>>)),
     status |-> "unread",
     created_at |-> 0]

\* updatePaper, up to its first await
UpdatePaper ==
    /\ page = "papers" /\ mounted
    /\ IF editingPaper = None
       THEN /\ lastOp' = Op("updatePaper returned", NULL)
            /\ UNCHANGED <<loading, error, tasks>>
       ELSE /\ CanStart /\ CanStamp
            /\ loading' = TRUE
            /\ error' = NULL
            /\ tasks' = Spawn(NewTask("edit", "update", editingPaper[1].id, UpdatePayload, <<>>))
            /\ lastOp' = Quiet
    /\ UNCHANGED <<fixedVars, now, papers, memoToday, allTags, formVars, viewVars, storeVars>>

\* the Save button of the edit row: onClick={updatePaper}
SaveEdit == EditRowShown /\ UpdatePaper

\* deletePaper without its early return: the delete is sent whatever confirm() returns
DeletePaperUnconfirmed(p, confirmed) ==
    /\ page = "papers" /\ mounted
    /\ p \in ListRows
    /\ ~(editingPaper # None /\ editingPaper[1].id = p.id)
    /\ CanStart
    /\ loading' = TRUE
    /\ error' = NULL
    /\ tasks' = Spawn(NewTask("delete", "delete", p.id, NoPayload, <<>>))
    /\ lastOp' = IF confirmed THEN Quiet ELSE Op("deletePaper declined", NULL)
    /\ UNCHANGED <<fixedVars, now, papers, memoToday, allTags, formVars, viewVars, storeVars>>

\* deletePaper(paper.id), up to its await; confirmed is what confirm() returns
DeletePaper(p, confirmed) ==
    /\ page = "papers" /\ mounted
    /\ p \in ListRows
    /\ ~(editingPaper # None /\ editingPaper[1].id = p.id)
    /\ IF ~confirmed
       THEN /\ lastOp' = Op("deletePaper declined", NULL)
            /\ UNCHANGED <<loading, error, tasks>>
       ELSE /\ CanStart
            /\ loading' = TRUE
            /\ error' = NULL
            /\ tasks' = Spawn(NewTask("delete", "delete", p.id, NoPayload, <<>>))
            /\ lastOp' = Quiet
    /\ UNCHANGED <<fixedVars, now, papers, memoToday, allTags, formVars, viewVars, storeVars>>

\* the status filter buttons
SetFilter(f) ==
    /\ page = "papers" /\ mounted
    /\ filter' = f
    /\ lastOp' = Op("setFilter", NULL)
    /\ UNCHANGED <<fixedVars, now, papers, memoToday, allTags, loading, error,
                   formVars, searchQuery, selectedTag, storeVars, tasks>>

\* a tag chip: selects the tag, or clears it when it is the selected one
SetSelectedTag(tag) ==
    /\ page = "papers" /\ mounted
    /\ tag \in Range(allTags)
    /\ selectedTag' = IF selectedTag = Some(tag) THEN None ELSE Some(tag)
    /\ lastOp' = Op("setSelectedTag", NULL)
    /\ UNCHANGED <<fixedVars, now, papers, memoToday, allTags, loading, error,
                   formVars, searchQuery, filter, storeVars, tasks>>

\* a search box that filters the array it searches
SetSearchQueryInPlace(q) ==
    /\ page = "papers" /\ mounted
    /\ searchQuery' = q
    /\ papers' = FilteredPapers(papers, filter, selectedTag, q)
    /\ lastOp' = Op("setSearchQuery", NULL)
    /\ UNCHANGED <<fixedVars, now, memoToday, allTags, loading, error,
                   formVars, filter, selectedTag, storeVars, tasks>>

\* onChange of the search box
SetSearchQuery(q) ==
    /\ page = "papers" /\ mounted
    /\ searchQuery' = q
    /\ lastOp' = Op("setSearchQuery", NULL)
    /\ UNCHANGED <<fixedVars, now, papers, memoToday, allTags, loading, error,
                   formVars, filter, selectedTag, storeVars, tasks>>

\* ---------------------------------------------------------------- Papers: the store answers
HasRow(table, id) == \E k \in 1..Len(table) : table[k].id = id

\* an update that writes every field of the request record to the row
UpdateRowsAllFields(table, t) ==
    [k \in 1..Len(table) |->
        IF table[k].id # t.id THEN table[k]
        ELSE [table[k] EXCEPT !.title = t.payload.title, !.tags = t.payload.tags,
                              !.status = t.payload.status,
                              !.created_at = t.payload.created_at,
                              !.updated_at = now]]

\* UPDATE ... WHERE id = t.id, with the trigger that stamps updated_at
UpdateRows(table, t) ==
    [k \in 1..Len(table) |->
        IF table[k].id # t.id THEN table[k]
        ELSE IF t.op = "toggle"
        THEN [table[k] EXCEPT !.status = t.payload.status, !.updated_at = now]
        ELSE [table[k] EXCEPT !.title = t.payload.title, !.tags = t.payload.tags,
                              !.updated_at = now]]

\* DELETE ... WHERE id = t.id
DeleteRows(table, t) == SelectSeq(table, LAMBDA r : r.id # t.id)

\* the row an insert stores: the payload, with the generated id
InsertedRow(t) ==
    [id |-> nextId, title |-> t.payload.title, status |-> t.payload.status,
     tags |-> t.payload.tags, created_at |-> t.payload.created_at,
     updated_at |-> t.payload.created_at]

\* the answer to the request of handler t as its continuation receives it: the
\* store's answer, or its refusal when the store has not executed the request
\* (a refusal changes nothing in the store, so it is decided as it arrives)
Answer(t) == IF t.st = "answered" THEN t ELSE [t EXCEPT !.err = ErrorMessage(t.req)]

\* the store executes the request of handler t
StoreExecutes(t) ==
    /\ page = "papers"
    /\ t \in Running /\ t.st = "sent"
    /\ lastOp' = Quiet
    /\ CASE t.req = "list" ->
              /\ tasks' = Replace(t, [t EXCEPT !.st = "answered", !.data = ListQuery(remote)])
              /\ UNCHANGED <<remote, nextId, toggled, now>>
         [] t.req = "insert" ->
              /\ remote' = Append(remote, InsertedRow(t))
              /\ nextId' = nextId + 1
              /\ toggled' = Append(toggled, 0)
              /\ tasks' = Replace(t, [t EXCEPT !.st = "answered", !.data = <<InsertedRow(t)>>])
              /\ UNCHANGED now
         [] t.req = "update" ->
              /\ remote' = UpdateRows(remote, t)
              /\ now' = IF HasRow(remote, t.id) THEN now + 1 ELSE now
              /\ toggled' = IF t.op = "toggle" /\ HasRow(remote, t.id)
                            THEN [toggled EXCEPT ![t.id] = @ + 1] ELSE toggled
              /\ tasks' = Replace(t, [t EXCEPT !.st = "answered"])
              /\ UNCHANGED nextId
         [] t.req = "delete" ->
              /\ remote' = DeleteRows(remote, t)
              /\ tasks' = Replace(t, [t EXCEPT !.st = "answered"])
              /\ UNCHANGED <<nextId, toggled, now>>
    /\ UNCHANGED <<fixedVars, papers, memoToday, allTags, loading, error, formVars, viewVars>>

\* ---------------------------------------------------------------- Papers: continuations
\* fetchPapers after its await; r is the answer handler t receives
FetchPapersDone(t, r) ==
    /\ IF r.err # NULL
       THEN /\ error' = r.err
            /\ tasks' = Finish(t)
            /\ UNCHANGED <<papers, memoToday, allTags>>
       ELSE /\ SetPapers(r.data)
            /\ tasks' = Touch(Finish(t))
            /\ UNCHANGED error
    /\ loading' = FALSE

\* the list response of handler t arrives: fetchPapers finishes, and updatePaper
\* after it
ListResponse(t) ==
    /\ page = "papers"
    /\ t \in Running /\ t.req = "list"
    /\ FetchPapersDone(t, Answer(t))
    /\ IF t.op = "edit"
       THEN editingPaper' = None /\ editForm' = EmptyForm
       ELSE UNCHANGED <<editingPaper, editForm>>
    /\ lastOp' = Quiet
    /\ UNCHANGED <<fixedVars, now, newPaper, viewVars, storeVars>>

\* addPaper after its await: the insert response of handler t arrives
InsertResponse(t) ==
    /\ page = "papers"
    /\ t \in Running /\ t.req = "insert"
    /\ IF Answer(t).err # NULL
       THEN /\ error' = AddFailedMessage
            /\ lastOp' = Quiet
            /\ tasks' = Finish(t)
            /\ UNCHANGED <<papers, memoToday, allTags, newPaper>>
       ELSE /\ SetPapers(t.snap \o Answer(t).data)
            /\ newPaper' = EmptyForm
            /\ lastOp' = Quiet
            /\ tasks' = Touch(Finish(t))
            /\ UNCHANGED error
    /\ loading' = FALSE
    /\ UNCHANGED <<fixedVars, now, editingPaper, editForm, viewVars, storeVars>>

\* an updatePaper that refetches whether or not its update failed, as
\* toggleStatus does
WriteResponseAlwaysRefetch(t) ==
    /\ page = "papers"
    /\ t \in Running /\ t.req \in {"update", "delete"}
    /\ lastOp' = Op("", Answer(t).err)
    /\ FetchPapersStart
    /\ tasks' = Replace(t, [t EXCEPT !.req = "list", !.st = "sent",
                                     !.wfail = (Answer(t).err # NULL)])
    /\ UNCHANGED <<fixedVars, now, papers, memoToday, allTags, formVars, viewVars, storeVars>>

\* an updatePaper that returns on a refused update without setLoading(false)
WriteResponseKeepsLoading(t) ==
    /\ page = "papers"
    /\ t \in Running /\ t.req \in {"update", "delete"}
    /\ IF t.op = "edit" /\ Answer(t).err # NULL
       THEN /\ error' = Answer(t).err
            /\ UNCHANGED loading
            /\ tasks' = Finish(t)
            /\ lastOp' = Quiet
       ELSE /\ lastOp' = Op("", Answer(t).err)
            /\ FetchPapersStart
            /\ tasks' = Replace(t, [t EXCEPT !.req = "list", !.st = "sent",
                                             !.wfail = (Answer(t).err # NULL)])
    /\ UNCHANGED <<fixedVars, now, papers, memoToday, allTags, formVars, viewVars, storeVars>>

\* toggleStatus, deletePaper and updatePaper after the await of their write:
\* the update or delete response of handler t arrives
WriteResponse(t) ==
    /\ page = "papers"
    /\ t \in Running /\ t.req \in {"update", "delete"}
    /\ IF t.op = "edit" /\ Answer(t).err # NULL
       THEN /\ error' = Answer(t).err
            /\ loading' = FALSE
            /\ tasks' = Finish(t)
            /\ lastOp' = Quiet
       ELSE /\ lastOp' = Op("", Answer(t).err)
            /\ FetchPapersStart
            /\ tasks' = Replace(t, [t EXCEPT !.req = "list", !.st = "sent",
                                             !.wfail = (Answer(t).err # NULL)])
    /\ UNCHANGED <<fixedVars, now, papers, memoToday, allTags, formVars, viewVars, storeVars>>

\* ---------------------------------------------------------------- Words: data
\* what the user types into the word and definition fields
WordInputs == {<<>>, <<" ">>, <<"a">>}
DefinitionInputs == {<<>>, <<"B">>}

\* useForm's defaultValues
DefaultValues == [word |-> <<>>, definition |-> <<>>]

\* the words table when the view is opened: one unmastered word
WordA == [id |-> 1, word |-> <<"A">>, definition |-> Some(<<"b">>), status |-> "unmastered",
          created_at |-> 1]
InitialWordTables == {<<WordA>>}

\* a schema whose word is z.string() without min(1)
FormSchemaAny(values) == Len(values.word) >= 0

\* formSchema, as handleSubmit's resolver applies it: word is z.string().min(1)
FormSchemaValid(values) == Len(values.word) >= 1

\* the callback of filteredWords throws a TypeError: word.definition is null
\* where .toLowerCase() is called on it (the || has not been satisfied by word)
WordThrows(w, f, q) ==
    /\ w.definition = None
    /\ ~(f # "all" /\ w.status # f)
    /\ q # <<>>
    /\ ~Includes(ToLowerCase(w.word), ToLowerCase(q))

\* the callback of filteredWords, where it returns
WordVisible(w, f, q) ==
    IF f # "all" /\ w.status # f THEN FALSE
    ELSE IF q # <<>>
    THEN \/ Includes(ToLowerCase(w.word), ToLowerCase(q))
         \/ w.definition # None /\ Includes(ToLowerCase(w.definition[1]), ToLowerCase(q))
    ELSE TRUE

\* words.filter(...) throws when its callback does
FilterThrows(ws, f, q) == \E i \in 1..Len(ws) : WordThrows(ws[i], f, q)

\* filteredWords, where the filter returns
FilteredWords(ws, f, q) == SelectSeq(ws, LAMBDA w : WordVisible(w, f, q))

\* the render of the Words view has thrown: without an error boundary React
\* unmounts the view
WordsThrown == page = "words" /\ FilterThrows(words, wFilter, wSearchQuery)

\* the Words view is on the screen
WordsShown == page = "words" /\ mounted /\ ~WordsThrown

\* the list is rendered only when neither loading nor error is set
WordRows == IF WordsShown /\ ~wLoading /\ wError = NULL
            THEN Range(FilteredWords(words, wFilter, wSearchQuery))
            ELSE {}

NewWordTask(op, req, id, payload) ==
    [op |-> op, req |-> req, st |-> "sent", id |-> id, payload |-> payload,
     wfail |-> FALSE, err |-> NULL, data |-> <<>>]

NoWordPayload == [word |-> <<>>, definition |-> <<>>, status |-> "unmastered"]

WordsRunning == BagToSet(wTasks)
WordsPending(req) == CountIn(wTasks, {t \in WordsRunning : t.st = "sent" /\ t.req = req})
WordsCanStart == BagCardinality(wTasks) < MaxTasks

\* the synchronous start of fetchWords
FetchWordsStart == wLoading' = TRUE /\ wError' = NULL

\* ---------------------------------------------------------------- Words: handlers
wordsFixed == <<page, mounted, pvars>>

\* useEffect(() => { fetchWords(); }, [fetchWords])
MountWords ==
    /\ page = "words" /\ ~mounted
    /\ mounted' = TRUE
    /\ FetchWordsStart
    /\ wTasks' = wTasks (+) SetToBag({NewWordTask("fetch", "list", 0, NoWordPayload)})
    /\ lastOp' = Quiet
    /\ UNCHANGED <<page, pvars, now, words, wForm, wSearchQuery, wFilter, wRemote>>

\* form.setValue("word", e.target.value)
SetWord(v) ==
    /\ WordsShown
    /\ wForm' = [wForm EXCEPT !.word = v]
    /\ lastOp' = Quiet
    /\ UNCHANGED <<wordsFixed, now, words, wLoading, wError, wSearchQuery, wFilter,
                   wRemote, wTasks>>

\* form.setValue("definition", e.target.value)
SetDefinition(v) ==
    /\ WordsShown
    /\ wForm' = [wForm EXCEPT !.definition = v]
    /\ lastOp' = Quiet
    /\ UNCHANGED <<wordsFixed, now, words, wLoading, wError, wSearchQuery, wFilter,
                   wRemote, wTasks>>

\* an Add Word button that loading does not disable
OnSubmitWhileLoading ==
    /\ WordsShown
    /\ IF ~FormSchemaValid(wForm)
       THEN /\ lastOp' = Op("onSubmit not called", NULL)
            /\ UNCHANGED <<wLoading, wError, wTasks>>
       ELSE /\ WordsCanStart
            /\ Len(wRemote) + WordsPending("insert") < MaxRows
            /\ now + WordsPending("insert") <= MaxClock
            /\ wLoading' = TRUE
            /\ wError' = NULL
            /\ wTasks' = wTasks (+) SetToBag({NewWordTask("add", "insert", 0,
                            [word |-> wForm.word, definition |-> wForm.definition,
                             status |-> "unmastered"])})
            /\ lastOp' = Quiet
    /\ UNCHANGED <<wordsFixed, now, words, wForm, wSearchQuery, wFilter, wRemote>>

\* the Add Word button: form.handleSubmit(onSubmit), and onSubmit up to its await
OnSubmit ==
    /\ WordsShown
    /\ ~wLoading
    /\ IF ~FormSchemaValid(wForm)
       THEN /\ lastOp' = Op("onSubmit not called", NULL)
            /\ UNCHANGED <<wLoading, wError, wTasks>>
       ELSE /\ WordsCanStart
            /\ Len(wRemote) + WordsPending("insert") < MaxRows
            /\ now + WordsPending("insert") <= MaxClock
            /\ wLoading' = TRUE
            /\ wError' = NULL
            /\ wTasks' = wTasks (+) SetToBag({NewWordTask("add", "insert", 0,
                            [word |-> wForm.word, definition |-> wForm.definition,
                             status |-> "unmastered"])})
            /\ lastOp' = Quiet
    /\ UNCHANGED <<wordsFixed, now, words, wForm, wSearchQuery, wFilter, wRemote>>

\* toggleStatus(word.id, word.status) of the Words view, up to its await
ToggleWordStatus(w) ==
    /\ WordsShown
    /\ w \in WordRows
    /\ WordsCanStart
    /\ wLoading' = TRUE
    /\ wError' = NULL
    /\ wTasks' = wTasks (+) SetToBag({NewWordTask("toggle", "update", w.id,
                    [NoWordPayload EXCEPT !.status =
                        IF w.status = "mastered" THEN "unmastered" ELSE "mastered"])})
    /\ lastOp' = Quiet
    /\ UNCHANGED <<wordsFixed, now, words, wForm, wSearchQuery, wFilter, wRemote>>

\* the status filter buttons of the Words view
SetWordFilter(f) ==
    /\ WordsShown
    /\ wFilter' = f
    /\ lastOp' = Op("setFilter", NULL)
    /\ UNCHANGED <<wordsFixed, now, words, wLoading, wError, wForm, wSearchQuery,
                   wRemote, wTasks>>

\* onChange of the search box of the Words view
SetWordSearchQuery(q) ==
    /\ WordsShown
    /\ wSearchQuery' = q
    /\ lastOp' = Op("setSearchQuery", NULL)
    /\ UNCHANGED <<wordsFixed, now, words, wLoading, wError, wForm, wFilter,
                   wRemote, wTasks>>

\* ---------------------------------------------------------------- Words: the store answers
WordAnswer(t) == IF t.st = "answered" THEN t ELSE [t EXCEPT !.err = ErrorMessage(t.req)]

\* the row an insert into words stores: created_at is the column default now()
InsertedWord(t) ==
    [id |-> Len(wRemote) + 1, word |-> t.payload.word,
     definition |-> Some(t.payload.definition), status |-> t.payload.status,
     created_at |-> now]

\* the store executes the request of handler t of the Words view
WordStoreExecutes(t) ==
    /\ page = "words"
    /\ t \in WordsRunning /\ t.st = "sent"
    /\ lastOp' = Quiet
    /\ CASE t.req = "list" ->
              /\ wTasks' = (wTasks (-) SetToBag({t})) (+)
                           SetToBag({[t EXCEPT !.st = "answered",
                                               !.data = SortDescBy(wRemote, <<>>, "created_at")]})
              /\ UNCHANGED <<wRemote, now>>
         [] t.req = "insert" ->
              /\ wRemote' = Append(wRemote, InsertedWord(t))
              /\ now' = now + 1
              /\ wTasks' = (wTasks (-) SetToBag({t})) (+) SetToBag({[t EXCEPT !.st = "answered"]})
         [] t.req = "update" ->
              /\ wRemote' = [k \in 1..Len(wRemote) |->
                                IF wRemote[k].id = t.id
                                THEN [wRemote[k] EXCEPT !.status = t.payload.status]
                                ELSE wRemote[k]]
              /\ wTasks' = (wTasks (-) SetToBag({t})) (+) SetToBag({[t EXCEPT !.st = "answered"]})
              /\ UNCHANGED now
    /\ UNCHANGED <<wordsFixed, words, wLoading, wError, wForm, wSearchQuery, wFilter>>

\* ---------------------------------------------------------------- Words: continuations
\* fetchWords after its await: the list response of handler t arrives
WordListResponse(t) ==
    /\ page = "words"
    /\ t \in WordsRunning /\ t.req = "list"
    /\ IF WordAnswer(t).err # NULL
       THEN wError' = WordAnswer(t).err /\ UNCHANGED words
       ELSE words' = WordAnswer(t).data /\ UNCHANGED wError
    /\ wLoading' = FALSE
    /\ wTasks' = wTasks (-) SetToBag({t})
    /\ lastOp' = Quiet
    /\ UNCHANGED <<wordsFixed, now, wForm, wSearchQuery, wFilter, wRemote>>

\* onSubmit and toggleStatus after the await of their write: the insert or
\* update response of handler t arrives
WordWriteResponse(t) ==
    /\ page = "words"
    /\ t \in WordsRunning /\ t.req \in {"insert", "update"}
    /\ lastOp' = Op("", WordAnswer(t).err)
    /\ wForm' = IF t.op = "add" THEN DefaultValues ELSE wForm
    /\ FetchWordsStart
    /\ wTasks' = (wTasks (-) SetToBag({t})) (+)
                 SetToBag({[t EXCEPT !.req = "list", !.st = "sent",
                                     !.wfail = (WordAnswer(t).err # NULL)]})
    /\ UNCHANGED <<wordsFixed, now, words, wSearchQuery, wFilter, wRemote>>

\* ---------------------------------------------------------------- the system
InitPapers ==
    /\ papers = <<>> /\ loading = FALSE /\ error = NULL
    /\ memoToday = DayOf(now)
    /\ allTags = <<>>
    /\ newPaper = EmptyForm /\ adding = FALSE
    /\ searchQuery = <<>> /\ filter = "all" /\ selectedTag = None
    /\ editingPaper = None /\ editForm = EmptyForm
    /\ tasks = EmptyBag

InitWords ==
    /\ words = <<>> /\ wLoading = FALSE /\ wError = NULL
    /\ wForm = DefaultValues /\ wSearchQuery = <<>> /\ wFilter = "all"
    /\ wTasks = EmptyBag

\* the router mounts one of the two views; each starts from its table as an
\* earlier session left it
Init ==
    /\ page \in {"papers", "words"}
    /\ mounted = FALSE
    /\ remote \in InitialTables
    /\ nextId = Len(remote) + 1
    /\ toggled = [k \in 1..Len(remote) |-> 0]
    /\ wRemote \in InitialWordTables
    /\ now = InitialClock
    /\ lastOp = Quiet
    /\ InitPapers
    /\ InitWords

\* the store and the continuations of the Papers handlers
PapersAnswers ==
    \/ \E t \in Running : StoreExecutes(t)
    \/ \E t \in Running : ListResponse(t)
    \/ \E t \in Running : InsertResponse(t)
    \/ \E t \in Running : WriteResponse(t)

\* the Papers view with its filter state left as it is after mounting
NextSync ==
    \/ MountPapers
    \/ \E t \in {<<"A">>} : SetNewTitle(t)
    \/ AddPaper
    \/ \E p \in Range(papers) : ToggleStatus(p)
    \/ \E p \in Range(papers) : StartEditing(p)
    \/ CancelEditing
    \/ \E t \in {<<"B">>} : SetEditTitle(t)
    \/ SaveEdit
    \/ \E p \in Range(papers), c \in BOOLEAN : DeletePaper(p, c)
    \/ PapersAnswers

\* the Words view
NextWords ==
    \/ MountWords
    \/ \E v \in WordInputs : SetWord(v)
    \/ \E v \in DefinitionInputs : SetDefinition(v)
    \/ OnSubmit
    \/ \E w \in Range(words) : ToggleWordStatus(w)
    \/ \E f \in {"all", "mastered", "unmastered"} : SetWordFilter(f)
    \/ \E q \in QueryInputs : SetWordSearchQuery(q)
    \/ \E t \in WordsRunning : WordStoreExecutes(t)
    \/ \E t \in WordsRunning : WordListResponse(t)
    \/ \E t \in WordsRunning : WordWriteResponse(t)

Next == NextSync \/ NextWords

Spec == Init /\ [][Next]_vars

\* ---------------------------------------------------------------- editing alone
\* what the edit form's title input is changed to
EditTitleInputs == {<<>>, <<"B">>}

InitEdit == Init /\ page = "papers"

\* the handlers of edit mode, updatePaper called as a function (whether or not
\* a paper is being edited)
NextEdit ==
    \/ MountPapers
    \/ \E p \in Range(papers) : StartEditing(p)
    \/ CancelEditing
    \/ \E t \in EditTitleInputs : SetEditTitle(t)
    \/ \E input \in TagInputs : SetEditTags(input)
    \/ UpdatePaper
    \/ \E t \in Running : StoreExecutes(t)
    \/ \E t \in Running : ListResponse(t)
    \/ \E t \in Running : WriteResponse(t)

SpecEdit == InitEdit /\ [][NextEdit]_vars

\* the Words view alone: the router has mounted index.tsx
InitWordsView == Init /\ page = "words"

SpecWords == InitWordsView /\ [][NextWords]_vars

\* ---------------------------------------------------------------- the filters alone
\* papers an earlier session left in the table: the two of the scenario of the
\* specification (the first is PaperA), one added with the tags input typed into
\* and cleared (its tag list is [""]), one added with the tags input untouched
\* (its tag list is null)
PaperB == [id |-> 2, title |-> <<"B">>, status |-> "read",
           tags |-> Some(<<<<"x">>, <<"y">>>>), created_at |-> 2, updated_at |-> 3]
PaperC == [id |-> 3, title |-> <<"a", "B">>, status |-> "unread",
           tags |-> Some(<<<<>>>>), created_at |-> 4, updated_at |-> 4]
PaperD == [id |-> 4, title |-> <<"b">>, status |-> "read",
           tags |-> None, created_at |-> 5, updated_at |-> 6]
SamplePapers == <<PaperA, PaperB, PaperC, PaperD>>

WordB == [id |-> 2, word |-> <<"b">>, definition |-> Some(<<>>), status |-> "mastered",
          created_at |-> 2]
WordC == [id |-> 3, word |-> <<"c">>, definition |-> None, status |-> "unmastered",
          created_at |-> 3]
SampleWords == <<WordA, WordB, WordC>>

\* the tables that hold some of the sample rows
SubTables(rows) ==
    {SelectSeq(rows, LAMBDA r : r.id \in S) : S \in SUBSET {rows[k].id : k \in 1..Len(rows)}}

\* a view whose list has been fetched and whose handlers have all finished
InitFilter ==
    /\ page \in {"papers", "words"}
    /\ mounted = TRUE
    /\ remote \in SubTables(SamplePapers)
    /\ nextId = Len(SamplePapers) + 1
    /\ toggled = [k \in 1..Len(SamplePapers) |-> 0]
    /\ wRemote \in SubTables(SampleWords)
    /\ now = MaxClock
    /\ lastOp = Quiet
    /\ papers = IF page = "papers" THEN RecentSort(ListQuery(remote)) ELSE <<>>
    /\ memoToday = DayOf(now)
    /\ allTags = IF page = "papers" THEN AllTags(ListQuery(remote)) ELSE <<>>
    /\ loading = FALSE /\ error = NULL
    /\ newPaper = EmptyForm /\ adding = FALSE
    /\ searchQuery = <<>> /\ filter = "all" /\ selectedTag = None
    /\ editingPaper = None /\ editForm = EmptyForm
    /\ tasks = EmptyBag
    /\ words = IF page = "words" THEN SortDescBy(wRemote, <<>>, "created_at") ELSE <<>>
    /\ wLoading = FALSE /\ wError = NULL
    /\ wForm = DefaultValues /\ wSearchQuery = <<>> /\ wFilter = "all"
    /\ wTasks = EmptyBag

\* the filter state of either view changes
NextFilter ==
    \/ \E f \in {"all", "read", "unread"} : SetFilter(f)
    \/ \E tag \in Range(allTags) : SetSelectedTag(tag)
    \/ \E q \in QueryInputs : SetSearchQuery(q)
    \/ \E f \in {"all", "mastered", "unmastered"} : SetWordFilter(f)
    \/ \E q \in QueryInputs : SetWordSearchQuery(q)

SpecFilter == InitFilter /\ [][NextFilter]_vars

\* ---------------------------------------------------------------- the dashboard alone
Row(id, title, status, tags, created, updated) ==
    [id |-> id, title |-> title, status |-> status, tags |-> tags,
     created_at |-> created, updated_at |-> updated]

\* papers earlier sessions left in the table: read and unread ones, with one
\* tag, several, the same tag twice, an empty tag list, no tag list; created
\* and updated today, on earlier days, and a month ago and more
DashRows ==
    << PaperA,
       Row(2, <<"B">>, "read", Some(<<<<"x">>, <<"y">>>>), -3, 0),
       Row(3, <<"C">>, "read", Some(<<<<"x">>, <<"x">>>>), -8, -8),
       Row(4, <<"D">>, "unread", None, -29 * TicksPerDay, -29 * TicksPerDay),
       Row(5, <<"E">>, "unread", Some(<<>>), -30 * TicksPerDay, -30 * TicksPerDay),
       Row(6, <<"F">>, "read", Some(<<Constructor>>), -50 * TicksPerDay, -2),
       Row(7, <<"G">>, "unread", Some(<<<<"y">>>>), -1, -1),
       Row(8, <<"H">>, "unread", Some(<<<<"x">>>>), 0, 0) >>

\* the view is opened on one of the tables that hold some of these papers
InitDash ==
    /\ page = "papers"
    /\ mounted = FALSE
    /\ remote \in SubTables(DashRows)
    /\ nextId = Len(DashRows) + 1
    /\ toggled = [k \in 1..Len(DashRows) |-> 0]
    /\ wRemote = <<>>
    /\ now = InitialClock
    /\ lastOp = Quiet
    /\ InitPapers
    /\ InitWords

\* midnight passes while the view is open
Midnight ==
    /\ page = "papers" /\ mounted
    /\ DayOf(now) < DayOf(InitialClock) + MaxNights
    /\ now' = (DayOf(now) + 1) * TicksPerDay
    /\ lastOp' = Quiet
    /\ UNCHANGED <<page, mounted, pvars, wvars>>

\* the view fetches its list and shows the dashboard, and time passes
NextDash ==
    \/ MountPapers
    \/ \E t \in Running : StoreExecutes(t)
    \/ \E t \in Running : ListResponse(t)
    \/ Midnight

SpecDash == InitDash /\ [][NextDash]_vars

\* ---------------------------------------------------------------- properties
\* C1: two toggle-status actions on the same paper return its stored status to
\* its original value, whatever the interleaving: a row the store has applied
\* two toggle updates to has the status it started with (every row starts unread)
C1_TwoTogglesRestoreStatus ==
    \A k \in 1..Len(remote) :
        toggled[remote[k].id] = 2 => remote[k].status = "unread"

\* C2: the cache is only ever replaced by the data of a completed list response,
\* never patched from a mutation response: whenever the cache changes, a list
\* response arrives in that step and the cache holds its rows
C2_CacheOnlyFromListResponses ==
    [][papers' # papers =>
        \E t \in Running : /\ t.req = "list" /\ t.st = "answered"
                           /\ Range(papers') = Range(t.data)]_vars

\* C3: when no request is outstanding, the cache holds as many papers as the
\* remote table has rows (the last list request has not failed: error is null)
C3_CacheSizeIsRowCount ==
    (page = "papers" /\ mounted /\ tasks = EmptyBag /\ error = NULL)
        => Len(papers) = Len(remote)

\* the step in which handler t, whose remote write was refused, finishes
RefusedWriteFinishes(t) ==
    \/ t.wfail /\ ~t.touched /\ ListResponse(t)
    \/ t.op = "edit" /\ t.st = "sent" /\ WriteResponse(t)
    \/ t.st = "sent" /\ papers = t.snap /\ InsertResponse(t)

\* C4: when the remote write of an add, toggle-status, edit or delete is refused,
\* the cache after the operation has finished is the cache from before it was
\* triggered (no other handler having written the cache in between)
C4_RefusedWriteKeepsCache ==
    [][\A t \in Running : RefusedWriteFinishes(t) => papers' = papers]_vars

\* the value the continuation of handler t passes to setError in this step
PapersSetErrorArg(t) == IF t.req \in {"update", "delete"} /\ t.op # "edit"
                        THEN lastOp'.err ELSE error'

\* C5: whenever a remote operation fails, the value passed to setError is the
\* store's error message, unaltered
C5_ErrorMessageVerbatim ==
    [][/\ \A t \in Running :
            (t.st = "sent" /\ (ListResponse(t) \/ InsertResponse(t) \/ WriteResponse(t)))
                => PapersSetErrorArg(t) = ErrorMessage(t.req)
       /\ \A t \in WordsRunning :
            /\ (t.st = "sent" /\ WordListResponse(t)) => wError' = ErrorMessage(t.req)
            /\ (t.st = "sent" /\ WordWriteResponse(t)) => lastOp'.err = ErrorMessage(t.req)]_vars

\* C6: a declined delete confirmation issues no request and leaves the cache,
\* the loading flag and the error state as they are
C6_DeclinedDeleteChangesNothing ==
    [][lastOp'.name = "deletePaper declined" =>
        UNCHANGED <<papers, loading, error, tasks, remote>>]_vars

\* a delete was declined while the list showed a paper
C6_Witness ==
    /\ lastOp.name = "deletePaper declined"
    /\ ListRows # {} /\ tasks = EmptyBag /\ Len(remote) > 0

\* C7: in the Words view no insert request is ever issued for an empty word:
\* every running add handler carries a non-empty word
C7_NoInsertOfEmptyWord ==
    \A t \in WordsRunning : t.op = "add" => t.payload.word # <<>>

\* the form was submitted with the word field empty, and nothing is running
C7_Witness ==
    /\ lastOp.name = "onSubmit not called"
    /\ wForm.word = <<>> /\ wTasks = EmptyBag

\* the three predicates as the claim states them
C8_Passes(p) ==
    /\ filter = "all" \/ p.status = filter
    /\ selectedTag = None \/ selectedTag[1] \in Range(TagsOf(p))
    /\ searchQuery = <<>> \/ Includes(ToLowerCase(p.title), ToLowerCase(searchQuery))

\* C8: the rendered list is exactly the cached papers that pass the status
\* filter, the selected tag and the search query, in cache order
C8_RenderedListIsFiltered ==
    page = "papers" =>
        FilteredPapers(papers, filter, selectedTag, searchQuery)
            = SelectSeq(papers, C8_Passes)

\* C9: changing the status filter, the selected tag or the search query issues
\* no request and leaves the cache unchanged, in both views
C9_FilterChangeKeepsCache ==
    [][lastOp'.name \in {"setFilter", "setSelectedTag", "setSearchQuery"} =>
        UNCHANGED <<papers, tasks, remote, loading, words, wTasks, wRemote, wLoading>>]_vars

\* the search query was changed and now hides a cached paper
C9_Witness ==
    /\ lastOp.name = "setSearchQuery"
    /\ searchQuery # <<>>
    /\ Len(FilteredPapers(papers, filter, selectedTag, searchQuery)) < Len(papers)

\* C10: computing the derived views leaves the cache as it was stored: whenever
\* the cache changes, it is the sequence the arriving response stored
C10_DerivedViewsKeepCacheOrder ==
    [][papers' # papers =>
        \E t \in Running :
            \/ t.req = "list" /\ t.st = "answered" /\ papers' = t.data
            \/ t.req = "insert" /\ t.st = "answered" /\ papers' = t.snap \o t.data]_vars

\* C11: when the cache is not empty the two rounded percentages sum to 100 up
\* to rounding (they differ from 100 by at most 1); when it is empty both are 0
C11_PercentagesSumTo100 ==
    LET s == Stats(papers)
        sum == s.readPercentage + s.unreadPercentage
    IN  (\A k \in 1..Len(papers) : papers[k].status \in {"read", "unread"}) =>
            IF s.total > 0
            THEN sum \in {99, 100, 101}
            ELSE s.readPercentage = 0 /\ s.unreadPercentage = 0

\* a fetched cache whose percentages are both rounded up: 3 read papers of 8
C11_Witness ==
    LET s == Stats(papers)
    IN  /\ mounted /\ tasks = EmptyBag
        /\ s.total = 8 /\ s.read = 3
        /\ s.readPercentage + s.unreadPercentage = 101

RECURSIVE SumCounts(_)
SumCounts(td) == IF td = <<>> THEN 0 ELSE Head(td).count.n + SumCounts(Tail(td))

RECURSIVE Occurrences(_)
Occurrences(ps) == IF ps = <<>> THEN 0 ELSE Len(TagsOf(Head(ps))) + Occurrences(Tail(ps))

\* C12: the counts of the tag histogram are numbers whose sum is the number of
\* (paper, tag) occurrences in the cache, a tag repeated in one paper counted
\* each time
C12_HistogramSumsToOccurrences ==
    LET td == TagDistribution(papers)
    IN  /\ \A i \in 1..Len(td) : ~td[i].count.text
        /\ SumCounts(td) = Occurrences(papers)

\* the calendar day it is
Today == DayOf(now)

\* C13: whatever the cache, the activity timeline has 30 entries, one per
\* calendar day in ascending order, the last being today and the first the day
\* 29 days before today
C13_TimelineCoversLast30Days ==
    (page = "papers" /\ mounted) =>
        /\ Len(Timeline) = 30
        /\ \A i \in 1..Len(Timeline) : Timeline[i].date = Today - 30 + i

RECURSIVE TimelineSum(_)
TimelineSum(tl) == IF tl = <<>> THEN 0 ELSE Head(tl).count + TimelineSum(Tail(tl))

\* the cached papers whose status-relevant date is the day d
DatedOn(d) ==
    {k \in 1..Len(papers) :
        DayOf(IF papers[k].status = "read" THEN papers[k].updated_at
              ELSE papers[k].created_at) = d}

\* C19: the count of each timeline day is the number of cached papers whose
\* status-relevant date (updated_at if read, created_at otherwise) is that day,
\* and the counts sum to at most the size of the cache
C19_TimelineCountsPapersByDay ==
    (page = "papers" /\ mounted) =>
        /\ \A i \in 1..Len(Timeline) : Timeline[i].count = Cardinality(DatedOn(Timeline[i].date))
        /\ TimelineSum(Timeline) <= Len(papers)

\* a fetched cache with two papers on one day, one of them read and created on
\* another day, and a paper older than the timeline
C19_Witness ==
    /\ mounted /\ tasks = EmptyBag
    /\ \E i \in 1..Len(Timeline) :
          /\ Timeline[i].count = 2
          /\ \E k \in DatedOn(Timeline[i].date) :
                papers[k].status = "read" /\ DayOf(papers[k].created_at) # Timeline[i].date
    /\ 0 < TimelineSum(Timeline) /\ TimelineSum(Timeline) < Len(papers)

\* C20: recent activity holds min(5, n) distinct cached papers in descending
\* order of updated_at, and no cached paper outside it was updated later than
\* one inside it
C20_RecentActivityIsLatestFive ==
    LET ra == RecentActivity(papers)
    IN  /\ Len(ra) = IF Len(papers) < 5 THEN Len(papers) ELSE 5
        /\ \A i \in 1..Len(ra) : ra[i] \in Range(papers)
        /\ \A i, j \in 1..Len(ra) : i < j => ra[i] # ra[j] /\ ra[i].updated_at >= ra[j].updated_at
        /\ \A p \in Range(papers) \ Range(ra), q \in Range(ra) : p.updated_at <= q.updated_at

\* a fetched cache of more than five papers, two of the latest five updated at
\* the same time
C20_Witness ==
    LET ra == RecentActivity(papers)
    IN  /\ mounted /\ tasks = EmptyBag
        /\ Len(papers) > 5 /\ Len(ra) = 5
        /\ \E i \in 1..4 : ra[i].updated_at = ra[i + 1].updated_at

\* C14: there is no staleness guard: whenever a successful list response is
\* applied, the cache becomes exactly the data of that response, whichever
\* request was issued last
C14_LastResponseWins ==
    [][\A t \in Running :
        (t.req = "list" /\ t.st = "answered" /\ ListResponse(t)) => papers' = t.data]_vars

\* the write request of a handler
WriteOf(op) == CASE op = "add" -> "insert" [] op = "delete" -> "delete" [] OTHER -> "update"

\* C15: when the write of a toggle or delete (Papers) or of an add or toggle
\* (Words) fails and the refetch that follows succeeds, the error state after
\* the operation has finished holds the message of the failed write
C15_FailedWriteStaysVisible ==
    [][/\ \A t \in Running :
            (t.wfail /\ t.req = "list" /\ t.st = "answered" /\ ListResponse(t))
                => error' = ErrorMessage(WriteOf(t.op))
       /\ \A t \in WordsRunning :
            (t.wfail /\ t.req = "list" /\ t.st = "answered" /\ WordListResponse(t))
                => wError' = ErrorMessage(WriteOf(t.op))]_vars

\* C16: a failed list request leaves the cache as it was, sets the error state
\* to the store's message and loading to false; a successful one replaces the
\* cache by the returned rows and leaves the error state null
C16_ListResponseApplied ==
    [][/\ \A t \in Running :
            (t.req = "list" /\ ListResponse(t)) =>
                IF t.st = "sent"
                THEN papers' = papers /\ error' = ErrorMessage("list") /\ loading' = FALSE
                ELSE papers' = t.data /\ error' = NULL
       /\ \A t \in WordsRunning :
            (t.req = "list" /\ WordListResponse(t)) =>
                IF t.st = "sent"
                THEN words' = words /\ wError' = ErrorMessage("list") /\ wLoading' = FALSE
                ELSE words' = t.data /\ wError' = NULL]_vars

\* C17: whenever the Papers list is rendered the cache is ordered by created_at,
\* newest first
C17_CacheNewestCreatedFirst ==
    (page = "papers" /\ mounted /\ ListVisible) =>
        \A i, j \in 1..Len(papers) : i < j => papers[i].created_at >= papers[j].created_at

\* C18: a save while editing issues exactly one update, for the id of the paper
\* being edited; when the update succeeds a refetch is issued and edit mode is
\* left, the edit form reset, only when that refetch has completed; when it
\* fails no refetch is issued, edit mode and the edit form are kept and the
\* error is set; a save while not editing issues no request
C18_SaveEdit ==
    [][/\ (UpdatePaper /\ editingPaper # None) =>
            \E u \in BagToSet(tasks') :
                /\ u.req = "update" /\ u.st = "sent" /\ u.id = editingPaper[1].id
                /\ tasks' = tasks (+) SetToBag({u})
       /\ lastOp'.name = "updatePaper returned" =>
            editingPaper = None /\ UNCHANGED <<tasks, remote, papers, loading, error>>
       /\ \A t \in Running :
            (t.op = "edit" /\ t.req = "update" /\ WriteResponse(t)) =>
                IF t.st = "answered"
                THEN /\ UNCHANGED <<editingPaper, editForm>>
                     /\ \E u \in BagToSet(tasks') :
                            /\ u.op = "edit" /\ u.req = "list" /\ u.st = "sent"
                            /\ tasks' = (tasks (-) SetToBag({t})) (+) SetToBag({u})
                ELSE /\ UNCHANGED <<editingPaper, editForm, papers>>
                     /\ tasks' = tasks (-) SetToBag({t})
                     /\ error' = ErrorMessage("update")
       /\ \A t \in Running :
            (t.op = "edit" /\ t.req = "list" /\ ListResponse(t)) =>
                editingPaper' = None /\ editForm' = [title |-> <<>>, tags |-> <<>>]
       /\ (editingPaper # None /\ editingPaper' = None) =>
            \/ CancelEditing
            \/ \E t \in Running : t.op = "edit" /\ t.req = "list" /\ ListResponse(t)]_vars

\* a saved edit has been refetched and edit mode left: the cache shows the new
\* title
C18_Witness ==
    /\ mounted /\ tasks = EmptyBag /\ editingPaper = None
    /\ \E k \in 1..Len(papers) : papers[k].title = <<"B">>
    /\ \E k \in 1..Len(remote) : remote[k].title = <<"B">>

\* ---------------------------------------------------------------- the tag set
\* the tags of the papers of a cache, in the order a scan of the cache meets them
RECURSIVE FlatTags(_)
FlatTags(ps) == IF ps = <<>> THEN <<>> ELSE TagsOf(Head(ps)) \o FlatTags(Tail(ps))

FirstIndex(s, x) == CHOOSE i \in 1..Len(s) : s[i] = x /\ \A j \in 1..(i - 1) : s[j] # x

\* C21: the tag set holds each tag that occurs in some cached paper exactly
\* once and nothing else, in the order in which a scan of the cached papers and
\* their tag lists first meets them; its size is the dashboard's unique-tag
\* count and the number of entries of the tag histogram
C21_TagSetFollowsCache ==
    page = "papers" =>
        LET flat == FlatTags(papers) IN
        /\ Range(allTags) = Range(flat)
        /\ \A a, b \in 1..Len(allTags) :
              a < b => /\ allTags[a] # allTags[b]
                       /\ FirstIndex(flat, allTags[a]) < FirstIndex(flat, allTags[b])
        /\ Len(allTags) = Stats(papers).uniqueTagsCount
        /\ Len(allTags) = Len(TagDistribution(papers))

\* ---------------------------------------------------------------- the add form alone
InitAdd == Init /\ page = "papers"

\* the add form is filled in and submitted
NextAdd ==
    \/ MountPapers
    \/ \E t \in TitleInputs : SetNewTitle(t)
    \/ \E input \in TagInputs : SetNewTags(input)
    \/ AddPaper
    \/ \E t \in Running : StoreExecutes(t)
    \/ \E t \in Running : ListResponse(t)
    \/ \E t \in Running : InsertResponse(t)

SpecAdd == InitAdd /\ [][NextAdd]_vars

Blank(s) == \A i \in 1..Len(s) : s[i] \in Whitespace

\* C22: an add triggered while the title is empty or only whitespace sends no
\* insert request and changes neither the cache, the form's contents, loading
\* nor error
C22_BlankTitleAddDoesNothing ==
    [][(AddPaper /\ Blank(newPaper.title)) =>
          UNCHANGED <<papers, newPaper, loading, error, tasks, remote>>]_vars

\* Add Paper has been clicked with a title of one space and tags typed in
C22_Witness ==
    /\ lastOp.name = "addPaper returned"
    /\ newPaper.title = <<" ">> /\ newPaper.tags # <<>>

\* ---------------------------------------------------------------- the Words search
\* a word passes: the status filter admits it and its word, or its definition
\* when it has one, contains the query, letter case ignored
C23_Passes(w) ==
    /\ wFilter = "all" \/ w.status = wFilter
    /\ \/ Includes(ToLowerCase(w.word), ToLowerCase(wSearchQuery))
       \/ w.definition # None /\ Includes(ToLowerCase(w.definition[1]), ToLowerCase(wSearchQuery))

\* C23: for every cache, words without a definition included, and non-empty
\* query the rendered list of the Words view is defined and holds exactly the
\* words that pass
C23_WordSearchIsDefined ==
    (page = "words" /\ wSearchQuery # <<>>) =>
        /\ ~FilterThrows(words, wFilter, wSearchQuery)
        /\ FilteredWords(words, wFilter, wSearchQuery) = SelectSeq(words, C23_Passes)

\* ---------------------------------------------------------------- what a save writes
InitSave == Init /\ page = "papers"

\* a paper is edited and saved while its status is toggled
NextSave ==
    \/ MountPapers
    \/ \E p \in Range(papers) : StartEditing(p)
    \/ \E p \in Range(papers) : ToggleStatus(p)
    \/ \E t \in {<<"B">>} : SetEditTitle(t)
    \/ SaveEdit
    \/ \E t \in Running : StoreExecutes(t)
    \/ \E t \in Running : ListResponse(t)
    \/ \E t \in Running : WriteResponse(t)

SpecSave == InitSave /\ [][NextSave]_vars

WordsAnswers ==
    \/ \E t \in WordsRunning : WordStoreExecutes(t)
    \/ \E t \in WordsRunning : WordListResponse(t)
    \/ \E t \in WordsRunning : WordWriteResponse(t)

\* the paper the table held when the view was opened, where the cache has it
FirstPaper == {p \in Range(papers) : p.id = PaperA.id}

\* the operations that send requests, in both views; the paper toggled, edited
\* and deleted is the first one, papers are added beside it
NextLive ==
    \/ MountPapers
    \/ \E t \in {<<"A">>} : SetNewTitle(t)
    \/ AddPaper
    \/ \E p \in FirstPaper : ToggleStatus(p)
    \/ \E p \in FirstPaper : StartEditing(p)
    \/ SaveEdit
    \/ \E p \in FirstPaper : DeletePaper(p, TRUE)
    \/ PapersAnswers
    \/ MountWords
    \/ \E v \in {<<"a">>} : SetWord(v)
    \/ OnSubmit
    \/ \E w \in Range(words) : ToggleWordStatus(w)
    \/ WordsAnswers

\* the store executes every request it was sent and every response arrives
Fairness == WF_vars(PapersAnswers) /\ WF_vars(WordsAnswers)

SpecLive == Init /\ [][NextLive]_vars /\ Fairness

\* C25: in both views loading is false whenever no request is outstanding,
\* the step that ends an operation chain sets loading to false and, every
\* request being answered, loading that is true eventually becomes false
C25_LoadingEnds ==
    /\ [](tasks = EmptyBag => ~loading)
    /\ [](wTasks = EmptyBag => ~wLoading)
    /\ [][/\ BagCardinality(tasks') < BagCardinality(tasks) => ~loading'
          /\ BagCardinality(wTasks') < BagCardinality(wTasks) => ~wLoading']_vars
    /\ loading ~> ~loading
    /\ wLoading ~> ~wLoading

\* a toggle has been written and refetched: its chain has ended, nothing is
\* outstanding and loading is false
C25_Witness ==
    /\ page = "papers" /\ mounted /\ tasks = EmptyBag /\ ~loading
    /\ \E k \in 1..Len(papers) : papers[k].status = "read" /\ toggled[papers[k].id] = 1

\* ---------------------------------------------------------------- loading and requests in flight
\* C26: in the Papers view loading is true in every state in which a request is
\* outstanding, so the list with its toggle, edit and delete controls is never
\* offered while a request is in flight
C26_LoadingWhileInFlight ==
    (page = "papers" /\ tasks # EmptyBag) => (loading /\ ~ListVisible)

\* ---------------------------------------------------------------- the add and the cache
\* C27: when the insert response of an add arrives successfully, the new cache
\* is the cache as it stood immediately before the response plus the inserted
\* row: no entry is restored that a refetch had removed, none is lost that a
\* refetch had brought in
C27_AddAppendsToCurrentCache ==
    [][\A t \in Running :
          (t.req = "insert" /\ t.st = "answered" /\ InsertResponse(t)) =>
              /\ Len(papers') = Len(papers) + 1
              /\ Range(papers') = Range(papers) \cup Range(t.data)]_vars

\* ---------------------------------------------------------------- the selected tag
InitTag == Init /\ page = "papers"

\* a tag is selected while papers are deleted or their tags edited
NextTag ==
    \/ MountPapers
    \/ \E tag \in Range(allTags) : SetSelectedTag(tag)
    \/ \E p \in Range(papers) : DeletePaper(p, TRUE)
    \/ \E p \in Range(papers) : StartEditing(p)
    \/ \E input \in TagInputs : SetEditTags(input)
    \/ SaveEdit
    \/ \E t \in Running : StoreExecutes(t)
    \/ \E t \in Running : ListResponse(t)
    \/ \E t \in Running : WriteResponse(t)

SpecTag == InitTag /\ [][NextTag]_vars

\* C28: the selected tag is null or a tag that some cached paper carries, so
\* that its chip is displayed; also after a delete, an edit or a refetch took
\* away the last paper that carried it
C28_SelectedTagIsCarried ==
    page = "papers" =>
        \/ selectedTag = None
        \/ /\ \E k \in 1..Len(papers) : selectedTag[1] \in Range(TagsOf(papers[k]))
           /\ selectedTag[1] \in Range(allTags)

\* ---------------------------------------------------------------- Words: one operation at a time
\* C29: in the Words view an add and a toggle start only while loading is
\* false and nothing is outstanding, and loading is true as long as the
\* operation's request or refetch is outstanding; so at most one request is
\* outstanding, and a toggle is computed from the status the store holds: two
\* toggles of a word are never computed from the same cached status
C29_WordsOneAtATime ==
    /\ [](page = "words" =>
            /\ BagCardinality(wTasks) <= 1
            /\ wTasks # EmptyBag => wLoading)
    /\ [][(mounted /\ BagCardinality(wTasks') > BagCardinality(wTasks)) =>
            /\ ~wLoading /\ wTasks = EmptyBag /\ wLoading'
            /\ \A u \in BagToSet(wTasks') :
                  u.req = "update" =>
                      \A k \in 1..Len(wRemote) :
                          wRemote[k].id = u.id => wRemote[k].status # u.payload.status]_vars

\* the word mastered by a first toggle is being toggled again, back to
\* unmastered
C29_Witness ==
    /\ page = "words" /\ wLoading
    /\ \E u \in WordsRunning :
          /\ u.op = "toggle" /\ u.req = "update" /\ u.st = "sent"
          /\ u.payload.status = "unmastered"
          /\ \E k \in 1..Len(wRemote) : wRemote[k].id = u.id /\ wRemote[k].status = "mastered"

\* ---------------------------------------------------------------- the tags that are stored
\* C30: every tag list the Papers view writes to the store, by an add or by an
\* edit save, holds no tag that is empty or only whitespace, whatever was typed
\* into the tags input
C30_NoBlankTagStored ==
    page = "papers" =>
        \A t \in Running :
            t.req \in {"insert", "update"} /\ t.op \in {"add", "edit"} =>
                \A i \in 1..Len(TagsOf(t.payload)) : ~Blank(TagsOf(t.payload)[i])

====
